---- MODULE Spec2Model ----
\* The command/message registry of scripts/buildcommands.py
\* (class HandleCommandGeneration) and the part of main() that drives it:
\* replay of the build-request records, identifier assignment, the data
\* dictionary, and the generated encoder/output/dispatch tables.
EXTENDS Integers, Sequences, FiniteSets, TLC

\* ------------------------------------------------------------------ bounds
\* Longest request file (number of records) that is replayed.
MaxReqs == 3

\* ------------------------------------------------------------ input values
\* Python's None.
None == "#None"

\* Message names, listed in lexical (string) order.
Names == <<"a", "b", "c">>
NameSet == {Names[i] : i \in DOMAIN Names}

\* Position of a name in lexical order.
NameRank(n) == CHOOSE i \in DOMAIN Names : Names[i] = n

\* A string is modelled as the sequence of its whitespace separated tokens;
\* a message name is the one-token string <<name>>.
Formats == {<<"a">>, <<"a", "%u">>, <<"b">>, <<"c">>, <<"c", "%u">>}

\* Handler function names and flags of _DECL_COMMAND records.
Funcs == {"f", "g"}
Flags == {"0"}

\* msg.split()[0]
FirstToken(msg) == msg[1]

\* The baseline message sets (msgproto.DefaultMessages) a build may start
\* from: identifier -> format string.
BaselineChoices ==
    { (1 :> <<"a">>),
      (0 :> <<"a", "%u">> @@ 2 :> <<"b">>) }

\* ------------------------------------------------------------------- state
VARIABLES
    pc,                \* where main() is
    reqs,              \* the records of the request file consumed so far
    DefaultMessages,   \* msgproto.DefaultMessages of this build
    commands,          \* self.commands: msgname -> (funcname, flags, msgname)
    encoders,          \* self.encoders: list of (msgname or None, msg)
    msg_to_id,         \* self.msg_to_id: format string -> identifier
    messages_by_name,  \* self.messages_by_name: msgname -> format string
    cmdkeys,           \* iteration order of the dict self.commands
    data,              \* the data dictionary built by build_identify
    all_param_types,   \* self.all_param_types: type signature -> index
    code,              \* the text generated by generate_code
    outfile            \* the output C file: "absent", "empty" or "written"

vars == <<pc, reqs, DefaultMessages, commands, encoders, msg_to_id,
          messages_by_name, cmdkeys, data, all_param_types, code, outfile>>

registry == <<commands, encoders, msg_to_id, messages_by_name>>

\* ----------------------------------------------------------------- helpers
Max(S) == CHOOSE x \in S : \A y \in S : y <= x

Range(f) == {f[x] : x \in DOMAIN f}

\* All orders in which the elements of S can be listed.
Perms(S) ==
    {s \in [1..Cardinality(S) -> S] :
        \A i, j \in 1..Cardinality(S) : i # j => s[i] # s[j]}

RECURSIVE Insert(_, _)
Insert(x, s) ==
    IF s = <<>> THEN <<x>>
    ELSE IF x <= Head(s) THEN <<x>> \o s
    ELSE <<Head(s)>> \o Insert(x, Tail(s))

\* Python's sorted() on a list of integers.
RECURSIVE sorted(_)
sorted(s) == IF s = <<>> THEN <<>> ELSE Insert(Head(s), sorted(Tail(s)))

\* The names of S listed in lexical order.
LexOrder(S) ==
    CHOOSE s \in Perms(S) :
        \A i, j \in 1..Cardinality(S) : i < j => NameRank(s[i]) < NameRank(s[j])

\* dict.get(key, key) on messages_by_name, the key given as a string.
MsgByNameGet(mbn, key) ==
    IF Len(key) = 1 /\ key[1] \in DOMAIN mbn THEN mbn[key[1]] ELSE key

EmptyMap == [x \in {} |-> None]

\* --------------------------------------------------------------- __init__
InitMsgToId(dm) == [m \in Range(dm) |-> CHOOSE i \in DOMAIN dm : dm[i] = m]

InitMessagesByName(m2i) ==
    [n \in {FirstToken(m) : m \in DOMAIN m2i} |->
        CHOOSE m \in DOMAIN m2i : FirstToken(m) = n]

NoData == [built |-> FALSE, messages |-> EmptyMap,
           commands |-> <<>>, responses |-> <<>>]

NoCode == [raised |-> None, encoder_defs |-> <<>>, encoder_code |-> <<>>,
           output_code |-> <<>>, index |-> <<>>, param_code |-> <<>>,
           all_param_types |-> EmptyMap]

Init ==
    /\ pc = "replay"
    /\ reqs = <<>>
    /\ DefaultMessages \in BaselineChoices
    /\ commands = EmptyMap
    /\ encoders = <<>>
    /\ msg_to_id = InitMsgToId(DefaultMessages)
    /\ messages_by_name = InitMessagesByName(InitMsgToId(DefaultMessages))
    /\ cmdkeys = <<>>
    /\ data = NoData
    /\ all_param_types = EmptyMap
    /\ code = NoCode
    /\ outfile = "absent"

\* ------------------------------------------------- the request records
Request(kind, funcname, flags, msg) ==
    [kind |-> kind, funcname |-> funcname, flags |-> flags, msg |-> msg]

CommandReqs ==
    {Request("_DECL_COMMAND", f, fl, m) : f \in Funcs, fl \in Flags, m \in Formats}
EncoderReqs == {Request("_DECL_ENCODER", None, None, m) : m \in Formats}
OutputReqs == {Request("_DECL_OUTPUT", None, None, m) : m \in Formats}
UnknownReqs == {Request("_DECL_BOGUS", None, None, <<"x">>)}

\* dict[key] = value
DictSet(d, key, value) ==
    [k \in DOMAIN d \cup {key} |-> IF k = key THEN value ELSE d[k]]

\* error(): sys.exit(-1); nothing after it runs.
error == pc' = "error"

\* ------------------------------------------------------------ decl_command
\* The check of line 146 left out.
decl_command_nocheck(req) ==
    LET msg == req.msg
        msgname == FirstToken(msg)
    IN  /\ UNCHANGED encoders
        /\ IF msgname \in DOMAIN commands
           THEN error /\ UNCHANGED <<commands, messages_by_name>>
           ELSE /\ commands' = DictSet(commands, msgname,
                       [funcname |-> req.funcname, flags |-> req.flags,
                        msgname |-> msgname])
                /\ pc' = "replay"
                /\ messages_by_name' = DictSet(messages_by_name, msgname, msg)

\* The check of line 141 left out.
decl_command_redefine(req) ==
    LET msg == req.msg
        msgname == FirstToken(msg)
    IN  /\ UNCHANGED encoders
        /\ commands' = DictSet(commands, msgname,
               [funcname |-> req.funcname, flags |-> req.flags,
                msgname |-> msgname])
        /\ IF msgname \in DOMAIN messages_by_name
              /\ messages_by_name[msgname] # msg
           THEN error /\ UNCHANGED messages_by_name
           ELSE /\ pc' = "replay"
                /\ messages_by_name' = DictSet(messages_by_name, msgname, msg)

\* An identical second declaration taken as a repetition of the first.
decl_command_idempotent(req) ==
    LET msg == req.msg
        msgname == FirstToken(msg)
        cmd == [funcname |-> req.funcname, flags |-> req.flags,
                msgname |-> msgname]
    IN  /\ UNCHANGED encoders
        /\ IF /\ msgname \in DOMAIN commands
              /\ ~(commands[msgname] = cmd /\ messages_by_name[msgname] = msg)
           THEN error /\ UNCHANGED <<commands, messages_by_name>>
           ELSE /\ commands' = DictSet(commands, msgname, cmd)
                /\ IF msgname \in DOMAIN messages_by_name
                      /\ messages_by_name[msgname] # msg
                   THEN error /\ UNCHANGED messages_by_name
                   ELSE /\ pc' = "replay"
                        /\ messages_by_name' =
                               DictSet(messages_by_name, msgname, msg)

decl_command(req) ==
    LET msg == req.msg                 \* req.split(None, 3)[3]
        msgname == FirstToken(msg)     \* req.split()[3]
    IN  /\ UNCHANGED encoders
        /\ IF msgname \in DOMAIN commands
           THEN error /\ UNCHANGED <<commands, messages_by_name>>
           ELSE /\ commands' = DictSet(commands, msgname,
                       [funcname |-> req.funcname, flags |-> req.flags,
                        msgname |-> msgname])
                /\ IF msgname \in DOMAIN messages_by_name
                      /\ messages_by_name[msgname] # msg
                   THEN error /\ UNCHANGED messages_by_name
                   ELSE /\ pc' = "replay"
                        /\ messages_by_name' =
                               DictSet(messages_by_name, msgname, msg)

\* ------------------------------------------------------------ decl_encoder
\* The check of line 153 left out.
decl_encoder_nocheck(req) ==
    LET msg == req.msg
        msgname == FirstToken(msg)
    IN  /\ UNCHANGED commands
        /\ pc' = "replay"
        /\ messages_by_name' = DictSet(messages_by_name, msgname, msg)
        /\ encoders' = Append(encoders, [msgname |-> msgname, msg |-> msg])

decl_encoder(req) ==
    LET msg == req.msg                 \* req.split(None, 1)[1]
        msgname == FirstToken(msg)     \* msg.split()[0]
    IN  /\ UNCHANGED commands
        /\ IF msgname \in DOMAIN messages_by_name
              /\ messages_by_name[msgname] # msg
           THEN error /\ UNCHANGED <<messages_by_name, encoders>>
           ELSE /\ pc' = "replay"
                /\ messages_by_name' = DictSet(messages_by_name, msgname, msg)
                /\ encoders' =
                       Append(encoders, [msgname |-> msgname, msg |-> msg])

\* ------------------------------------------------------------- decl_output
decl_output(req) ==
    /\ pc' = "replay"
    /\ encoders' = Append(encoders, [msgname |-> None, msg |-> req.msg])
    /\ UNCHANGED <<commands, messages_by_name>>

\* ------------------------------------------------------- main: the replay
\* One turn of the loop over the records of the request file.
main_replay(req) ==
    /\ pc = "replay"
    /\ Len(reqs) < MaxReqs
    /\ reqs' = Append(reqs, req)
    /\ UNCHANGED <<DefaultMessages, msg_to_id, cmdkeys, data,
                   all_param_types, code, outfile>>

DeclCommand == \E req \in CommandReqs : main_replay(req) /\ decl_command(req)
DeclEncoder == \E req \in EncoderReqs : main_replay(req) /\ decl_encoder(req)
DeclOutput == \E req \in OutputReqs : main_replay(req) /\ decl_output(req)

\* A record whose first token is in no handler's ctr_dispatch.
UnknownCommand ==
    \E req \in UnknownReqs :
        /\ main_replay(req)
        /\ error
        /\ UNCHANGED <<commands, encoders, messages_by_name>>

\* ------------------------------------------------------ create_message_ids
\* The loop of lines 163-167 over the rest of the list `keys`.
RECURSIVE create_ids_loop(_, _, _, _)
create_ids_loop(keys, mbn, m2i, msgid) ==
    IF keys = <<>> THEN m2i
    ELSE LET msg == MsgByNameGet(mbn, Head(keys))
         IN  IF msg \in DOMAIN m2i
             THEN create_ids_loop(Tail(keys), mbn, m2i, msgid)
             ELSE create_ids_loop(Tail(keys), mbn,
                                  DictSet(m2i, msg, msgid + 1), msgid + 1)

\* self.commands.keys() + [m for n, m in self.encoders]
IdKeys(keys, encs) ==
    [i \in 1..Len(keys) |-> <<keys[i]>>] \o [i \in 1..Len(encs) |-> encs[i].msg]

\* The increment of line 166 left out.
RECURSIVE create_ids_loop_noincr(_, _, _, _)
create_ids_loop_noincr(keys, mbn, m2i, msgid) ==
    IF keys = <<>> THEN m2i
    ELSE LET msg == MsgByNameGet(mbn, Head(keys))
         IN  IF msg \in DOMAIN m2i
             THEN create_ids_loop_noincr(Tail(keys), mbn, m2i, msgid)
             ELSE create_ids_loop_noincr(Tail(keys), mbn,
                                         DictSet(m2i, msg, msgid + 1), msgid)

create_message_ids_noincr(keys, encs, mbn, m2i) ==
    create_ids_loop_noincr(IdKeys(keys, encs), mbn, m2i, Max(Range(m2i)))

\* The test of line 165 left out: every visited message gets a fresh id.
RECURSIVE create_ids_loop_renumber(_, _, _, _)
create_ids_loop_renumber(keys, mbn, m2i, msgid) ==
    IF keys = <<>> THEN m2i
    ELSE create_ids_loop_renumber(Tail(keys), mbn,
             DictSet(m2i, MsgByNameGet(mbn, Head(keys)), msgid + 1), msgid + 1)

create_message_ids_renumber(keys, encs, mbn, m2i) ==
    create_ids_loop_renumber(IdKeys(keys, encs), mbn, m2i, Max(Range(m2i)))

\* Numbering started at the number of baseline messages, not at their
\* largest identifier.
create_message_ids_count(keys, encs, mbn, m2i) ==
    create_ids_loop(IdKeys(keys, encs), mbn, m2i, Cardinality(DOMAIN m2i) - 1)

\* keys: self.commands.keys() in the order the dict yields them.
create_message_ids(keys, encs, mbn, m2i) ==
    create_ids_loop(IdKeys(keys, encs), mbn, m2i, Max(Range(m2i)))

\* -------------------------------------------------- update_data_dictionary
\* What stands for a list comprehension that raised KeyError (identifiers
\* are never negative).
KeyErrorIds == <<-1>>

\* [self.msg_to_id[msg] for msgname, msg in ...items() if msgname in names];
\* KeyErrorIds when a lookup fails.
RECURSIVE IdsOfNames(_, _, _)
IdsOfNames(names, mbn, m2i) ==
    IF names = <<>> THEN <<>>
    ELSE IF mbn[Head(names)] \notin DOMAIN m2i THEN KeyErrorIds
    ELSE LET rest == IdsOfNames(Tail(names), mbn, m2i)
         IN  IF rest = KeyErrorIds THEN rest
             ELSE <<m2i[mbn[Head(names)]]>> \o rest

\* { msgid: msg for msg, msgid in self.msg_to_id.items() }
MessagesOf(m2i) ==
    [i \in Range(m2i) |-> CHOOSE m \in DOMAIN m2i : m2i[m] = i]

\* data['messages'] computed before create_message_ids has run.
update_data_dictionary_stale(keys, cmds, encs, mbn, m2i) ==
    LET ids == create_message_ids(keys, encs, mbn, m2i)
        cmdids == IdsOfNames(LexOrder(DOMAIN mbn \cap DOMAIN cmds), mbn, ids)
        rspids == IdsOfNames(LexOrder(DOMAIN mbn \ DOMAIN cmds), mbn, ids)
    IN  [raised |-> None, msg_to_id |-> ids, messages |-> MessagesOf(m2i),
         commands |-> sorted(cmdids), responses |-> sorted(rspids)]

\* The result of update_data_dictionary: the new msg_to_id and the three
\* entries it stores in data.
update_data_dictionary(keys, cmds, encs, mbn, m2i) ==
    LET ids == create_message_ids(keys, encs, mbn, m2i)
        cmdids == IdsOfNames(LexOrder(DOMAIN mbn \cap DOMAIN cmds), mbn, ids)
        rspids == IdsOfNames(LexOrder(DOMAIN mbn \ DOMAIN cmds), mbn, ids)
    IN  IF cmdids = KeyErrorIds \/ rspids = KeyErrorIds
        THEN [raised |-> "KeyError", msg_to_id |-> ids,
              messages |-> MessagesOf(ids),
              commands |-> <<>>, responses |-> <<>>]
        ELSE [raised |-> None, msg_to_id |-> ids,
              messages |-> MessagesOf(ids),
              commands |-> sorted(cmdids), responses |-> sorted(rspids)]

\* ---------------------------------------------------------- build_identify
\* Runs when the request file is exhausted (main, line 450).  The dict
\* self.commands yields its keys in an order the code does not fix.
build_identify ==
    /\ pc = "replay"
    /\ \E keys \in Perms(DOMAIN commands) :
         LET d == update_data_dictionary(keys, commands, encoders,
                                         messages_by_name, msg_to_id)
         IN  /\ cmdkeys' = keys
             /\ msg_to_id' = d.msg_to_id
             /\ IF d.raised # None
                THEN pc' = "crash" /\ UNCHANGED data
                ELSE /\ pc' = "identified"
                     /\ data' = [built |-> TRUE, messages |-> d.messages,
                                 commands |-> d.commands,
                                 responses |-> d.responses]
    /\ UNCHANGED <<reqs, DefaultMessages, commands, encoders,
                   messages_by_name, all_param_types, code, outfile>>

\* ---------------------------------------------------------------- msgproto
\* The Message Format Library (klippy/msgproto.py).  An argument token
\* `name=%u` of a format string is written as its conversion `%u` alone: the
\* library looks at nothing else of it.
MESSAGE_MIN == 5
MESSAGE_MAX == 64

Conversions == {"%u", "%i", "%hu", "%hi", "%c", "%s", "%.*s", "%*s"}

\* The class name of the type of a conversion.
MessageTypes(conv) ==
    CASE conv = "%u" -> "PT_uint32"
      [] conv = "%i" -> "PT_int32"
      [] conv = "%hu" -> "PT_uint16"
      [] conv = "%hi" -> "PT_int16"
      [] conv = "%c" -> "PT_byte"
      [] conv = "%s" -> "PT_string"
      [] conv = "%.*s" -> "PT_progmem_buffer"
      [] conv = "%*s" -> "PT_buffer"

\* t.max_length
max_length(t) ==
    CASE t \in {"PT_uint32", "PT_int32"} -> 5
      [] t \in {"PT_uint16", "PT_int16"} -> 3
      [] t = "PT_byte" -> 2
      [] t \in {"PT_string", "PT_progmem_buffer", "PT_buffer"} -> 64

\* The tokens of s that are conversions, in order.
ConversionsIn(s) == SelectSeq(s, LAMBDA tok : tok \in Conversions)

\* msgproto.MessageFormat(msgid, msg): the first token is the name, every
\* other token an argument.
MessageFormat(msgid, msg) ==
    [name |-> FirstToken(msg), msgid |-> msgid, msgformat |-> msg,
     param_types |-> [i \in 1..(Len(msg) - 1) |-> MessageTypes(msg[i + 1])]]

\* msgproto.OutputFormat(msgid, msg): every conversion found in the string
\* is an argument.
OutputFormat(msgid, msg) ==
    [name |-> "#output", msgid |-> msgid, msgformat |-> msg,
     param_types |-> [i \in 1..Len(ConversionsIn(msg)) |->
                        MessageTypes(ConversionsIn(msg)[i])]]

\* ------------------------------------------------------------ build_parser
\* sum([t.max_length for t in parser.param_types])
RECURSIVE SumMaxLength(_)
SumMaxLength(types) ==
    IF types = <<>> THEN 0
    ELSE max_length(Head(types)) + SumMaxLength(Tail(types))

\* types.count(t)
CountType(types, t) == Cardinality({i \in DOMAIN types : types[i] = t})

Min(x, y) == IF x <= y THEN x ELSE y

\* The lookup of lines 188-189 left out: every call takes a new index.
InternTypes_nolookup(types, apt) ==
    [paramid |-> Cardinality(DOMAIN apt),
     all_param_types |-> DictSet(apt, types, Cardinality(DOMAIN apt))]

\* Lines 185-192: the index of the signature `types` in all_param_types,
\* which gets the next index when the signature is new.  [paramid, apt].
InternTypes(types, apt) ==
    IF types \in DOMAIN apt
    THEN [paramid |-> apt[types], all_param_types |-> apt]
    ELSE [paramid |-> Cardinality(DOMAIN apt),
          all_param_types |-> DictSet(apt, types, Cardinality(DOMAIN apt))]

\* types.count('PT_buffer') left out of num_args.
ParserCode_nobuffer(parser, iscmd, types, params, apt) ==
    [out |-> [output |-> (parser.name = "#output"),
              comment |-> parser.msgformat,
              msg_id |-> parser.msgid,
              num_params |-> Len(types),
              params |-> params,
              num_args |-> IF iscmd
                           THEN Len(types)
                                + CountType(types, "PT_progmem_buffer")
                           ELSE -1,
              max_size |-> IF iscmd THEN -1
                           ELSE Min(MESSAGE_MAX,
                                    MESSAGE_MIN + 1 + SumMaxLength(types))],
     all_param_types |-> apt]

\* min(msgproto.MESSAGE_MAX, ...) left out of max_size.
ParserCode_nomin(parser, iscmd, types, params, apt) ==
    [out |-> [output |-> (parser.name = "#output"),
              comment |-> parser.msgformat,
              msg_id |-> parser.msgid,
              num_params |-> Len(types),
              params |-> params,
              num_args |-> IF iscmd
                           THEN Len(types)
                                + CountType(types, "PT_progmem_buffer")
                                + CountType(types, "PT_buffer")
                           ELSE -1,
              max_size |-> IF iscmd THEN -1
                           ELSE MESSAGE_MIN + 1 + SumMaxLength(types)],
     all_param_types |-> apt]

\* The text build_parser returns and the all_param_types it leaves.
\* params is <<>> for the literal 0 and <<N>> for command_parametersN; of
\* num_args and max_size the one that is not emitted is -1.
ParserCode(parser, iscmd, types, params, apt) ==
    [out |-> [output |-> (parser.name = "#output"),
              comment |-> parser.msgformat,
              msg_id |-> parser.msgid,
              num_params |-> Len(types),
              params |-> params,
              num_args |-> IF iscmd
                           THEN Len(types)
                                + CountType(types, "PT_progmem_buffer")
                                + CountType(types, "PT_buffer")
                           ELSE -1,
              max_size |-> IF iscmd THEN -1
                           ELSE Min(MESSAGE_MAX,
                                    MESSAGE_MIN + 1 + SumMaxLength(types))],
     all_param_types |-> apt]

build_parser(parser, iscmd, apt) ==
    LET types == parser.param_types
    IN  IF types # <<>>
        THEN LET r == InternTypes(types, apt)
             IN  ParserCode(parser, iscmd, types, <<r.paramid>>,
                            r.all_param_types)
        ELSE ParserCode(parser, iscmd, types, <<>>, apt)

\* ------------------------------------------------- generate_responses_code
\* One struct command_encoder definition (lines 228-232).
EncoderDef(msgid, msgname, msg, parsercode) ==
    [msgid |-> msgid, msg |-> msg, output |-> (msgname = None),
     parsercode |-> parsercode]

\* One branch of a lookup chain (lines 220-221).
LookupBranch(msg, msgid) == [str |-> msg, msgid |-> msgid]

\* The parser of an entry of self.encoders (lines 222-227).
EncoderParser(msgid, msgname, msg) ==
    IF msgname = None THEN OutputFormat(msgid, msg)
    ELSE MessageFormat(msgid, msg)

\* The loop of lines 214-232 over the rest of the list `encs`.
RECURSIVE responses_loop(_, _, _, _)
responses_loop(encs, m2i, did_output, acc) ==
    IF encs = <<>> THEN acc
    ELSE LET msgname == Head(encs).msgname
             msg == Head(encs).msg
         IN  IF msg \notin DOMAIN m2i
             THEN [acc EXCEPT !.raised = "KeyError"]
             ELSE LET msgid == m2i[msg]
                      p == build_parser(EncoderParser(msgid, msgname, msg),
                                        FALSE, acc.all_param_types)
                  IN  IF msgid \in did_output
                      THEN responses_loop(Tail(encs), m2i, did_output, acc)
                      ELSE responses_loop(Tail(encs), m2i,
                             did_output \cup {msgid},
                             [acc EXCEPT
                                !.all_param_types = p.all_param_types,
                                !.encoder_defs =
                                    Append(@, EncoderDef(msgid, msgname, msg,
                                                         p.out)),
                                !.output_code =
                                    IF msgname = None
                                    THEN Append(@, LookupBranch(msg, msgid))
                                    ELSE @,
                                !.encoder_code =
                                    IF msgname = None
                                    THEN @
                                    ELSE Append(@, LookupBranch(msg, msgid))])

\* The did_output test of lines 216-217 left out.
RECURSIVE responses_loop_nodedup(_, _, _)
responses_loop_nodedup(encs, m2i, acc) ==
    IF encs = <<>> THEN acc
    ELSE LET msgname == Head(encs).msgname
             msg == Head(encs).msg
         IN  IF msg \notin DOMAIN m2i
             THEN [acc EXCEPT !.raised = "KeyError"]
             ELSE LET p == build_parser(
                               EncoderParser(m2i[msg], msgname, msg),
                               FALSE, acc.all_param_types)
                  IN  responses_loop_nodedup(Tail(encs), m2i,
                        [acc EXCEPT
                           !.all_param_types = p.all_param_types,
                           !.encoder_defs =
                               Append(@, EncoderDef(m2i[msg], msgname, msg,
                                                    p.out)),
                           !.output_code =
                               IF msgname = None
                               THEN Append(@, LookupBranch(msg, m2i[msg]))
                               ELSE @,
                           !.encoder_code =
                               IF msgname = None
                               THEN @
                               ELSE Append(@, LookupBranch(msg, m2i[msg]))])

generate_responses_code_nodedup(encs, m2i, apt) ==
    responses_loop_nodedup(encs, m2i,
                           [NoCode EXCEPT !.all_param_types = apt])

\* apt: self.all_param_types when the method is entered.
generate_responses_code(encs, m2i, apt) ==
    responses_loop(encs, m2i, {}, [NoCode EXCEPT !.all_param_types = apt])

\* -------------------------------------------------- generate_commands_code
\* The dict comprehension of lines 254-257, the keys of self.commands taken
\* in the order `keys`; a later key replaces an earlier one with the same id.
\* [raised, map].
RECURSIVE cmd_by_id_loop(_, _, _, _, _)
cmd_by_id_loop(keys, cmds, mbn, m2i, acc) ==
    IF keys = <<>> THEN [raised |-> None, map |-> acc]
    ELSE LET msg == MsgByNameGet(mbn, <<Head(keys)>>)
         IN  IF msg \notin DOMAIN m2i
             THEN [raised |-> "KeyError", map |-> acc]
             ELSE cmd_by_id_loop(Tail(keys), cmds, mbn, m2i,
                                 DictSet(acc, m2i[msg], cmds[Head(keys)]))

\* What stands for the parser code of an entry that has none.
NoParserCode ==
    [output |-> FALSE, comment |-> <<>>, msg_id |-> -1, num_params |-> 0,
     params |-> <<>>, num_args |-> 0, max_size |-> -1]

\* " {\n}," : the entry of an identifier that no command has.
Placeholder ==
    [empty |-> TRUE, msgid |-> -1, msg |-> <<>>, flags |-> None,
     func |-> None, parsercode |-> NoParserCode]

\* The entry of lines 265-271.
IndexEntry(msgid, cmd, mbn, parsercode) ==
    [empty |-> FALSE, msgid |-> msgid, msg |-> mbn[cmd.msgname],
     flags |-> cmd.flags, func |-> cmd.funcname, parsercode |-> parsercode]

\* The identifiers of S that are below `bound`, in increasing order.
IdsBelow(S, bound) ==
    LET T == {x \in S : x < bound}
    IN  [k \in 1..Cardinality(T) |->
           CHOOSE x \in T : Cardinality({y \in T : y < x}) = k - 1]

\* self.all_param_types after build_parser has run for the commands with
\* the identifiers `ids`, in that order.
RECURSIVE apt_loop(_, _, _, _)
apt_loop(ids, cmd_by_id, mbn, apt) ==
    IF ids = <<>> THEN apt
    ELSE apt_loop(Tail(ids), cmd_by_id, mbn,
             build_parser(MessageFormat(Head(ids),
                                        mbn[cmd_by_id[Head(ids)].msgname]),
                          TRUE, apt).all_param_types)

\* The loop of lines 261-271 over range(last + 1): the entry of msgid is
\* built with the all_param_types that the entries before it have left.
\* [index, all_param_types].
index_loop(last, cmd_by_id, mbn, apt) ==
    [index |->
        [i \in 1..(last + 1) |->
           IF (i - 1) \notin DOMAIN cmd_by_id THEN Placeholder
           ELSE LET cmd == cmd_by_id[i - 1]
                    before == apt_loop(IdsBelow(DOMAIN cmd_by_id, i - 1),
                                       cmd_by_id, mbn, apt)
                IN  IndexEntry(i - 1, cmd, mbn,
                       build_parser(MessageFormat(i - 1, mbn[cmd.msgname]),
                                    TRUE, before).out)],
     all_param_types |->
        apt_loop(IdsBelow(DOMAIN cmd_by_id, last + 1), cmd_by_id, mbn, apt)]

\* What the method gives when it raises `exc`.
CommandsRaised(exc, apt) ==
    [raised |-> exc, index |-> <<>>, all_param_types |-> apt]

\* range(max_cmd_msgid) in place of range(max_cmd_msgid+1).
generate_commands_code_short(keys, cmds, mbn, m2i, apt) ==
    LET c == cmd_by_id_loop(keys, cmds, mbn, m2i, EmptyMap)
    IN  IF c.raised # None THEN CommandsRaised(c.raised, apt)
        ELSE IF DOMAIN c.map = {} THEN CommandsRaised("ValueError", apt)
        ELSE LET r == index_loop(Max(DOMAIN c.map) - 1, c.map, mbn, apt)
             IN  [raised |-> None, index |-> r.index,
                  all_param_types |-> r.all_param_types]

\* The table indexed from the smallest command identifier, not from 0.
generate_commands_code_nogaps(keys, cmds, mbn, m2i, apt) ==
    LET c == cmd_by_id_loop(keys, cmds, mbn, m2i, EmptyMap)
    IN  IF c.raised # None THEN CommandsRaised(c.raised, apt)
        ELSE IF DOMAIN c.map = {} THEN CommandsRaised("ValueError", apt)
        ELSE LET r == index_loop(Max(DOMAIN c.map), c.map, mbn, apt)
             IN  [raised |-> None,
                  index |-> SelectSeq(r.index, LAMBDA e : ~e.empty),
                  all_param_types |-> r.all_param_types]

\* [raised, index, all_param_types]: index[i + 1] is the entry of
\* identifier i.  max() of an empty dict's keys raises ValueError (line 258).
generate_commands_code(keys, cmds, mbn, m2i, apt) ==
    LET c == cmd_by_id_loop(keys, cmds, mbn, m2i, EmptyMap)
    IN  IF c.raised # None THEN CommandsRaised(c.raised, apt)
        ELSE IF DOMAIN c.map = {} THEN CommandsRaised("ValueError", apt)
        ELSE LET r == index_loop(Max(DOMAIN c.map), c.map, mbn, apt)
             IN  [raised |-> None, index |-> r.index,
                  all_param_types |-> r.all_param_types]

\* ----------------------------------------------------- generate_param_code
\* One `static const uint8_t command_parametersN[]` definition per entry of
\* all_param_types, sorted by N (lines 286-293).
generate_param_code(apt) ==
    [k \in 1..Cardinality(DOMAIN apt) |->
        LET a == CHOOSE t \in DOMAIN apt :
                    Cardinality({u \in DOMAIN apt : apt[u] < apt[t]}) = k - 1
        IN  [paramid |-> apt[a], argtypes |-> a]]

\* ----------------------------------------------------------- generate_code
\* generate_param_code called first, before the entries are generated.
generate_code_paramfirst(keys, cmds, encs, mbn, m2i, apt) ==
    LET paramcode == generate_param_code(apt)
        parsercode == generate_responses_code(encs, m2i, apt)
        cmdcode == generate_commands_code(keys, cmds, mbn, m2i,
                                          parsercode.all_param_types)
    IN  IF parsercode.raised # None
        THEN [NoCode EXCEPT !.raised = parsercode.raised,
                            !.all_param_types = parsercode.all_param_types]
        ELSE IF cmdcode.raised # None
        THEN [NoCode EXCEPT !.raised = cmdcode.raised,
                            !.all_param_types = cmdcode.all_param_types]
        ELSE [parsercode EXCEPT !.index = cmdcode.index,
                                !.all_param_types = cmdcode.all_param_types,
                                !.param_code = paramcode]

\* The generated text, with the all_param_types the call leaves.
generate_code(keys, cmds, encs, mbn, m2i, apt) ==
    LET parsercode == generate_responses_code(encs, m2i, apt)
        cmdcode == generate_commands_code(keys, cmds, mbn, m2i,
                                          parsercode.all_param_types)
        paramcode == generate_param_code(cmdcode.all_param_types)
    IN  IF parsercode.raised # None
        THEN [NoCode EXCEPT !.raised = parsercode.raised,
                            !.all_param_types = parsercode.all_param_types]
        ELSE IF cmdcode.raised # None
        THEN [NoCode EXCEPT !.raised = cmdcode.raised,
                            !.all_param_types = cmdcode.all_param_types]
        ELSE [parsercode EXCEPT !.index = cmdcode.index,
                                !.all_param_types = cmdcode.all_param_types,
                                !.param_code = paramcode]

\* --------------------------------------------------- main: the output file
\* f = open(outcfile, 'wb') (line 452): the file exists and is empty.
main_open ==
    /\ pc = "identified"
    /\ pc' = "opened"
    /\ outfile' = "empty"
    /\ UNCHANGED <<reqs, DefaultMessages, commands, encoders, msg_to_id,
                   messages_by_name, cmdkeys, data, all_param_types, code>>

\* generate_code emptying self.encoders as it goes through the list.
main_write_consume ==
    /\ pc = "opened"
    /\ LET g == generate_code(cmdkeys, commands, encoders,
                              messages_by_name, msg_to_id, all_param_types)
       IN  /\ code' = g
           /\ all_param_types' = g.all_param_types
           /\ IF g.raised # None
              THEN pc' = "crash" /\ UNCHANGED outfile
              ELSE pc' = "done" /\ outfile' = "written"
    /\ encoders' = <<>>
    /\ UNCHANGED <<reqs, DefaultMessages, commands, msg_to_id,
                   messages_by_name, cmdkeys, data>>

\* f.write(FILEHEADER + "".join([h.generate_code() ...]) + icode); f.close()
\* (lines 453-455).  An exception raised by generate_code ends the run
\* before anything is written.
main_write ==
    /\ pc = "opened"
    /\ LET g == generate_code(cmdkeys, commands, encoders,
                              messages_by_name, msg_to_id, all_param_types)
       IN  /\ code' = g
           /\ all_param_types' = g.all_param_types
           /\ IF g.raised # None
              THEN pc' = "crash" /\ UNCHANGED outfile
              ELSE pc' = "done" /\ outfile' = "written"
    /\ UNCHANGED <<reqs, DefaultMessages, commands, encoders, msg_to_id,
                   messages_by_name, cmdkeys, data>>

Next ==
    \/ DeclCommand \/ DeclEncoder \/ DeclOutput \/ UnknownCommand
    \/ build_identify
    \/ main_open
    \/ main_write

Spec == Init /\ [][Next]_vars

\* ------------------------------------------- builds with typed messages
\* The same program on request files whose formats have arguments of
\* several types, from the baseline set of msgproto.py in shape:
\* 0 is a response with a progmem buffer, 1 a command with two integers.
BaselineTypes ==
    (0 :> <<"a", "%u", "%.*s">> @@ 1 :> <<"b", "%u", "%c">>)

TypedFormats ==
    {<<"a", "%u", "%.*s">>, <<"b", "%u", "%c">>, <<"c", "%u", "%c">>,
     <<"c", "%*s">>, <<"c", "%s">>, <<"c">>}

TypedCommandReqs ==
    {Request("_DECL_COMMAND", "f", fl, m) : fl \in Flags, m \in TypedFormats}
TypedEncoderReqs == {Request("_DECL_ENCODER", None, None, m) : m \in TypedFormats}
TypedOutputReqs == {Request("_DECL_OUTPUT", None, None, m) : m \in TypedFormats}

InitTypes ==
    /\ pc = "replay"
    /\ reqs = <<>>
    /\ DefaultMessages = BaselineTypes
    /\ commands = EmptyMap
    /\ encoders = <<>>
    /\ msg_to_id = InitMsgToId(DefaultMessages)
    /\ messages_by_name = InitMessagesByName(InitMsgToId(DefaultMessages))
    /\ cmdkeys = <<>>
    /\ data = NoData
    /\ all_param_types = EmptyMap
    /\ code = NoCode
    /\ outfile = "absent"

DeclCommandTypes ==
    \E req \in TypedCommandReqs : main_replay(req) /\ decl_command(req)
DeclEncoderTypes ==
    \E req \in TypedEncoderReqs : main_replay(req) /\ decl_encoder(req)
DeclOutputTypes ==
    \E req \in TypedOutputReqs : main_replay(req) /\ decl_output(req)

NextTypes ==
    \/ DeclCommandTypes \/ DeclEncoderTypes \/ DeclOutputTypes
    \/ build_identify
    \/ main_open
    \/ main_write

SpecTypes == InitTypes /\ [][NextTypes]_vars

\* ----------------------------------------- builds with a large identifier
\* The largest value of the uint8_t that holds command_index_size.
UINT8_MAX == 255

\* A baseline set whose largest identifier is the last one a uint8_t holds,
\* as it is after 255 messages have been given identifiers.
BaselineCapacity == (UINT8_MAX :> <<"a">>)

InitCapacity ==
    /\ pc = "replay"
    /\ reqs = <<>>
    /\ DefaultMessages = BaselineCapacity
    /\ commands = EmptyMap
    /\ encoders = <<>>
    /\ msg_to_id = InitMsgToId(DefaultMessages)
    /\ messages_by_name = InitMessagesByName(InitMsgToId(DefaultMessages))
    /\ cmdkeys = <<>>
    /\ data = NoData
    /\ all_param_types = EmptyMap
    /\ code = NoCode
    /\ outfile = "absent"

SpecCapacity == InitCapacity /\ [][Next]_vars

\* ============================================================== properties
\* Identifier assignment (create_message_ids) has run.
Assigned == pc \in {"identified", "opened", "done"}

\* The output file has been written: both emitters have run.
Emitted == pc = "done"

IsDecl(r) == r.kind \in {"_DECL_COMMAND", "_DECL_ENCODER"}

\* Record i declares a format for a message name for which the baseline set
\* or an earlier record holds another format.
Conflicting(i) ==
    /\ IsDecl(reqs[i])
    /\ \/ \E m \in Range(DefaultMessages) :
            FirstToken(m) = FirstToken(reqs[i].msg) /\ m # reqs[i].msg
       \/ \E j \in 1..(i - 1) :
            /\ IsDecl(reqs[j])
            /\ FirstToken(reqs[j].msg) = FirstToken(reqs[i].msg)
            /\ reqs[j].msg # reqs[i].msg

\* The formats declared for message name n: by the baseline set and by the
\* command and encoder records consumed.
DeclaredFormats(n) ==
    {m \in Range(DefaultMessages) : FirstToken(m) = n}
    \cup {reqs[i].msg : i \in {j \in DOMAIN reqs :
                                 IsDecl(reqs[j]) /\ FirstToken(reqs[j].msg) = n}}

\* The identifier the registry gives the message named n.
IdOfName(n) == msg_to_id[messages_by_name[n]]

SeqRange(s) == {s[i] : i \in DOMAIN s}

\* C1: a command or encoder record whose format differs from the format
\* already recorded for its message name (baseline, earlier command or
\* earlier encoder) ends the run in a fatal error at that record, with no
\* output file; and once identifiers are assigned every message name has
\* exactly one declared format, the one in messages_by_name.
C1_ConflictIsFatal ==
    /\ \A i \in DOMAIN reqs :
         Conflicting(i) => /\ pc = "error"
                           /\ i = Len(reqs)
                           /\ outfile = "absent"
    /\ Assigned =>
         \A n \in NameSet :
            /\ Cardinality(DeclaredFormats(n)) <= 1
            /\ DeclaredFormats(n) # {} =>
                 /\ n \in DOMAIN messages_by_name
                 /\ DeclaredFormats(n) = {messages_by_name[n]}

\* A command record conflicting with an earlier encoder record has ended
\* the run.
C1_Witness ==
    /\ pc = "error"
    /\ Len(reqs) >= 2
    /\ Conflicting(Len(reqs))
    /\ reqs[Len(reqs)].kind = "_DECL_COMMAND"
    /\ \E j \in 1..(Len(reqs) - 1) :
         /\ reqs[j].kind = "_DECL_ENCODER"
         /\ FirstToken(reqs[j].msg) = FirstToken(reqs[Len(reqs)].msg)

\* C2: after create_message_ids every baseline format still has exactly
\* its baseline identifier, in msg_to_id and in the schema's messages, and
\* no baseline identifier belongs to another format.
C2_BaselineIdsKept ==
    Assigned =>
      /\ \A i \in DOMAIN DefaultMessages :
           /\ DefaultMessages[i] \in DOMAIN msg_to_id
           /\ msg_to_id[DefaultMessages[i]] = i
           /\ i \in DOMAIN data.messages
           /\ data.messages[i] = DefaultMessages[i]
      /\ \A m \in DOMAIN msg_to_id :
           msg_to_id[m] \in DOMAIN DefaultMessages
               => m = DefaultMessages[msg_to_id[m]]

\* Identifiers were assigned with a new command declared before a baseline
\* message was declared as a command.
C2_Witness ==
    /\ Assigned
    /\ \E i, j \in DOMAIN reqs :
         /\ i < j
         /\ reqs[i].kind = "_DECL_COMMAND"
         /\ reqs[i].msg \notin Range(DefaultMessages)
         /\ reqs[j].kind = "_DECL_COMMAND"
         /\ reqs[j].msg \in Range(DefaultMessages)

\* C3: in the schema the command identifiers and the response identifiers
\* are disjoint and together are all assigned identifiers (the keys of
\* data['messages']), those of anonymous outputs included.
C3_Partition ==
    Assigned =>
      /\ SeqRange(data.commands) \cap SeqRange(data.responses) = {}
      /\ SeqRange(data.commands) \cup SeqRange(data.responses)
             = DOMAIN data.messages

\* The strings create_message_ids visits, in order, each resolved to the
\* format it stands for.
VisitedFormats ==
    LET keys == IdKeys(cmdkeys, encoders)
    IN  [i \in DOMAIN keys |-> MsgByNameGet(messages_by_name, keys[i])]

FirstVisit(m) == CHOOSE i \in DOMAIN VisitedFormats :
                    /\ VisitedFormats[i] = m
                    /\ \A j \in 1..(i - 1) : VisitedFormats[j] # m

NewFormats == DOMAIN msg_to_id \ Range(DefaultMessages)

\* C4: the formats that were not in the mapping get the identifiers
\* m+1, m+2, ... (m the largest baseline identifier) in the order in which
\* create_message_ids first visits them, and no identifier belongs to two
\* formats.
C4_NextUnusedId ==
    Assigned =>
      LET m == Max(DOMAIN DefaultMessages)
      IN  /\ \A f \in NewFormats : msg_to_id[f] > m
          /\ \A f, g \in DOMAIN msg_to_id :
               f # g => msg_to_id[f] # msg_to_id[g]
          /\ {msg_to_id[f] : f \in NewFormats}
                 = (m + 1)..(m + Cardinality(NewFormats))
          /\ NewFormats \subseteq SeqRange(VisitedFormats)
          /\ \A f, g \in NewFormats :
               FirstVisit(f) < FirstVisit(g) => msg_to_id[f] < msg_to_id[g]

\* Two new formats were given identifiers.
C4_Witness ==
    /\ Assigned
    /\ Cardinality(NewFormats) >= 2
    /\ \E f \in NewFormats : msg_to_id[f] = Max(DOMAIN DefaultMessages) + 1

\* C5: the identifiers are those that visiting the command names in
\* lexical order, then the encoders and outputs in declaration order, gives;
\* so they are a function of the records and the baseline set alone.
C5_LexicalOrder ==
    Assigned =>
      msg_to_id = create_message_ids(LexOrder(DOMAIN commands), encoders,
                      messages_by_name, InitMsgToId(DefaultMessages))

\* The identifiers of the declared commands.
CommandIds == {IdOfName(n) : n \in DOMAIN commands}

\* The identifiers of the populated entries of the dispatch table.
PopulatedIds == {i - 1 : i \in {j \in DOMAIN code.index : ~code.index[j].empty}}

\* C6: the dispatch table has the entries 0..M, M the largest command
\* identifier; entry i is the empty placeholder exactly when no command has
\* identifier i, and otherwise holds the handler, flags and message of the
\* command with identifier i.
C6_DenseTable ==
    (Emitted /\ DOMAIN commands # {}) =>
      LET M == Max(CommandIds)
      IN  /\ Len(code.index) = M + 1
          /\ \A i \in 0..M :
               LET e == code.index[i + 1]
               IN  /\ e.empty <=> i \notin CommandIds
                   /\ e.empty => e = Placeholder
                   /\ ~e.empty =>
                        \E n \in DOMAIN commands :
                          /\ IdOfName(n) = i
                          /\ e.msgid = i
                          /\ e.func = commands[n].funcname
                          /\ e.flags = commands[n].flags
                          /\ e.msg = messages_by_name[n]
                          /\ \E k \in DOMAIN reqs :
                               /\ reqs[k].kind = "_DECL_COMMAND"
                               /\ reqs[k].msg = e.msg
                               /\ reqs[k].funcname = e.func
                               /\ reqs[k].flags = e.flags

\* A table with a placeholder below a populated entry and two populated
\* entries was written.
C6_Witness ==
    /\ Emitted
    /\ Len(code.index) >= 3
    /\ \E i, j \in DOMAIN code.index :
         i < j /\ code.index[i].empty /\ ~code.index[j].empty
    /\ Cardinality(PopulatedIds) >= 2

\* C7: the populated dispatch-table indices are the schema's command
\* identifiers, and every emitted encoder/output definition and lookup
\* branch with identifier i has the format data['messages'] records for i.
C7_TablesAgreeWithSchema ==
    Emitted =>
      /\ PopulatedIds = SeqRange(data.commands)
      /\ \A i \in DOMAIN code.index :
           ~code.index[i].empty =>
              /\ (i - 1) \in DOMAIN data.messages
              /\ data.messages[i - 1] = code.index[i].msg
      /\ \A e \in SeqRange(code.encoder_defs) :
           /\ e.msgid \in DOMAIN data.messages
           /\ data.messages[e.msgid] = e.msg
      /\ \A b \in SeqRange(code.encoder_code) \cup SeqRange(code.output_code) :
           /\ b.msgid \in DOMAIN data.messages
           /\ data.messages[b.msgid] = b.str

\* Tables with a command, a named encoder and an anonymous output, the
\* last two with identifiers assigned in this build, were written.
C7_Witness ==
    /\ Emitted
    /\ PopulatedIds # {}
    /\ \E e \in SeqRange(code.encoder_code) :
         e.msgid \notin DOMAIN DefaultMessages
    /\ \E e \in SeqRange(code.output_code) :
         e.msgid \notin DOMAIN DefaultMessages

\* The command records consumed for message name n.
CommandRecords(n) ==
    {i \in DOMAIN reqs :
        reqs[i].kind = "_DECL_COMMAND" /\ FirstToken(reqs[i].msg) = n}

\* C8: in a registry that reaches emission every declared command comes
\* from exactly one command record, whose handler it has; distinct commands
\* have distinct identifiers; and the written dispatch table has one
\* populated entry per declared command.
C8_OneHandlerPerCommand ==
    /\ Assigned =>
         /\ \A n \in NameSet : (CommandRecords(n) # {}) <=> (n \in DOMAIN commands)
         /\ \A n \in DOMAIN commands :
              /\ Cardinality(CommandRecords(n)) = 1
              /\ \A i \in CommandRecords(n) :
                   /\ commands[n].funcname = reqs[i].funcname
                   /\ commands[n].flags = reqs[i].flags
         /\ \A n1, n2 \in DOMAIN commands :
              n1 # n2 => IdOfName(n1) # IdOfName(n2)
    /\ Emitted =>
         /\ Cardinality(PopulatedIds) = Cardinality(DOMAIN commands)
         /\ \A n \in DOMAIN commands :
              code.index[IdOfName(n) + 1].func = commands[n].funcname

\* Three commands with two different handlers were written to the table.
C8_Witness ==
    /\ Emitted
    /\ Cardinality(DOMAIN commands) = 3
    /\ Cardinality({commands[n].funcname : n \in DOMAIN commands}) = 2

\* The formats declared as anonymous outputs.
OutputFormats ==
    {encoders[i].msg : i \in {j \in DOMAIN encoders : encoders[j].msgname = None}}

\* C9: the identifier of an anonymous output is never in the schema's
\* command list and never the index of a populated dispatch-table entry.
C9_OutputNeverCommand ==
    Assigned =>
      \A m \in OutputFormats :
         m \in DOMAIN msg_to_id =>
            /\ msg_to_id[m] \notin SeqRange(data.commands)
            /\ Emitted => msg_to_id[m] \notin PopulatedIds

\* How many elements of the sequence s satisfy Test.
Count(s, Test(_)) == Cardinality({i \in DOMAIN s : Test(s[i])})

\* The output format m is declared after a named encoder with the same
\* format string.
EncoderFirst(m) ==
    \E i \in DOMAIN encoders :
       /\ encoders[i].msg = m
       /\ encoders[i].msgname # None
       /\ \A j \in 1..(i - 1) : encoders[j].msg # m

\* self.encoders with every repeated anonymous declaration removed.
RECURSIVE OutputsOnce(_, _)
OutputsOnce(encs, seen) ==
    IF encs = <<>> THEN <<>>
    ELSE IF Head(encs).msgname = None /\ Head(encs).msg \in seen
    THEN OutputsOnce(Tail(encs), seen)
    ELSE <<Head(encs)>> \o
         OutputsOnce(Tail(encs),
             IF Head(encs).msgname = None THEN seen \cup {Head(encs).msg}
             ELSE seen)

SignatureOfDef(e) ==
    IF e.output THEN OutputFormat(e.msgid, e.msg).param_types
    ELSE MessageFormat(e.msgid, e.msg).param_types

SignatureOfEntry(e) == MessageFormat(e.msgid, e.msg).param_types

\* The signatures of the entries in the order in which generate_code
\* builds them: the encoder and output definitions, then the populated
\* dispatch-table entries.
BuiltSignatures ==
    [i \in DOMAIN code.encoder_defs |-> SignatureOfDef(code.encoder_defs[i])]
    \o [i \in 1..Len(SelectSeq(code.index, LAMBDA e : ~e.empty)) |->
          SignatureOfEntry(SelectSeq(code.index, LAMBDA e : ~e.empty)[i])]

\* The non-empty signatures built.
InternedSignatures == {t \in SeqRange(BuiltSignatures) : t # <<>>}

FirstBuilt(t) == CHOOSE i \in DOMAIN BuiltSignatures :
                    /\ BuiltSignatures[i] = t
                    /\ \A j \in 1..(i - 1) : BuiltSignatures[j] # t

\* params of an entry with signature t.
ParamsOf(t) == IF t = <<>> THEN <<>> ELSE <<all_param_types[t]>>

\* C11: the entries of equal (non-empty) type signatures refer to the same
\* type-table index and those of different signatures to different ones;
\* the indices are handed out in first-seen order from zero, so the k
\* signatures interned have exactly the indices 0..k-1.
C11_InternTypeSignature ==
    Emitted =>
      /\ DOMAIN all_param_types = InternedSignatures
      /\ Range(all_param_types)
             = 0..(Cardinality(InternedSignatures) - 1)
      /\ \A s, t \in InternedSignatures :
            /\ s # t => all_param_types[s] # all_param_types[t]
            /\ FirstBuilt(s) < FirstBuilt(t)
                  => all_param_types[s] < all_param_types[t]
      /\ \A e \in SeqRange(code.encoder_defs) :
            /\ SignatureOfDef(e) # <<>>
                  => e.parsercode.params = <<all_param_types[SignatureOfDef(e)]>>
      /\ \A i \in DOMAIN code.index :
            (~code.index[i].empty /\ SignatureOfEntry(code.index[i]) # <<>>)
               => code.index[i].parsercode.params
                     = <<all_param_types[SignatureOfEntry(code.index[i])]>>

\* Tables were written in which two signatures are interned and two
\* different messages share one of them.
C11_Witness ==
    /\ Emitted
    /\ Cardinality(DOMAIN all_param_types) >= 2
    /\ \E i \in DOMAIN code.encoder_defs, j \in DOMAIN code.index :
         /\ ~code.index[j].empty
         /\ code.index[j].msg # code.encoder_defs[i].msg
         /\ code.index[j].parsercode.params # <<>>
         /\ code.index[j].parsercode.params
               = code.encoder_defs[i].parsercode.params

\* generate_code has run to its end or raised.
Generated == pc \in {"done", "crash"}

\* C12: generating the dispatch table of a registry without commands
\* succeeds and gives an empty table.
C12_EmptyTableValid ==
    (Generated /\ DOMAIN commands = {} /\ code.raised # "KeyError") =>
       /\ pc = "done"
       /\ code.raised = None
       /\ code.index = <<>>

\* C13: when a command identifier exceeds 255 the run ends in an error and
\* no dispatch table is written.
C13_CapacityError ==
    (Generated /\ \E n \in DOMAIN commands : IdOfName(n) > UINT8_MAX) =>
       /\ pc = "crash"
       /\ code.index = <<>>
       /\ outfile # "written"

\* The run has ended in a fatal error: error() was called during the replay
\* or an exception ended identifier assignment or emission.
Fatal == pc \in {"error", "crash"}

\* C14: when the run ends in a fatal error the output file has not been
\* created, truncated or written.
C14_NoFileOnFatalError == Fatal => outfile = "absent"

\* C15: after identifier assignment no step changes the command map, the
\* encoder/output list, the name-to-format map or the format-to-identifier
\* map, and no record is processed.
C15_RegistryFrozen ==
    [][Assigned => (registry' = registry /\ reqs' = reqs)]_vars

\* The file was written for a registry with a command and an encoder or
\* output, with an identifier that is not a baseline one.
C15_Witness ==
    /\ Emitted
    /\ DOMAIN commands # {}
    /\ encoders # <<>>
    /\ \E m \in DOMAIN msg_to_id : m \notin Range(DefaultMessages)

\* The fields of a signature that are buffers.
BufferFields(t) ==
    {i \in DOMAIN t : t[i] \in {"PT_buffer", "PT_progmem_buffer"}}

\* C16: in every populated dispatch-table entry num_params is the number of
\* fields of the message's signature and num_args that number plus one for
\* each buffer field; without buffer fields the two are equal.
C16_ParamAndArgCounts ==
    \A i \in DOMAIN code.index :
       ~code.index[i].empty =>
          LET t == SignatureOfEntry(code.index[i])
              c == code.index[i].parsercode
          IN  /\ c.num_params = Len(t)
              /\ c.num_args = Len(t) + Cardinality(BufferFields(t))
              /\ BufferFields(t) = {} => c.num_args = c.num_params

\* A table was written with an entry of scalar fields only and an entry
\* with a buffer field.
C16_Witness ==
    /\ Emitted
    /\ \E i, j \in DOMAIN code.index :
         /\ ~code.index[i].empty /\ ~code.index[j].empty
         /\ code.index[i].parsercode.num_params > 0
         /\ code.index[i].parsercode.num_args
               = code.index[i].parsercode.num_params
         /\ code.index[j].parsercode.num_args
               > code.index[j].parsercode.num_params

\* C17 as stated: max_size of every encoder/output entry is
\* min(MESSAGE_MAX, MESSAGE_MIN + sum of the fields' maximum lengths).
C17_MaxSizeHeaderOnly ==
    \A i \in DOMAIN code.encoder_defs :
       LET e == code.encoder_defs[i]
           size == MESSAGE_MIN + SumMaxLength(SignatureOfDef(e))
       IN  e.parsercode.max_size
              = (IF size < MESSAGE_MAX THEN size ELSE MESSAGE_MAX)

\* C17 amended: max_size of every encoder/output entry is
\* min(MESSAGE_MAX, MESSAGE_MIN + 1 + sum of the fields' maximum lengths)
\* and so never exceeds MESSAGE_MAX.
C17_MaxSize ==
    \A i \in DOMAIN code.encoder_defs :
       LET e == code.encoder_defs[i]
           size == MESSAGE_MIN + 1 + SumMaxLength(SignatureOfDef(e))
       IN  /\ e.parsercode.max_size
                 = (IF size < MESSAGE_MAX THEN size ELSE MESSAGE_MAX)
           /\ e.parsercode.max_size <= MESSAGE_MAX

\* Entries were written of which one has fields and a size below
\* MESSAGE_MAX and one is cut off at MESSAGE_MAX.
C17_Witness ==
    /\ Emitted
    /\ \E i, j \in DOMAIN code.encoder_defs :
         /\ code.encoder_defs[i].parsercode.num_params > 0
         /\ code.encoder_defs[i].parsercode.max_size < MESSAGE_MAX
         /\ code.encoder_defs[j].parsercode.max_size = MESSAGE_MAX
         /\ MESSAGE_MIN + 1
              + SumMaxLength(SignatureOfDef(code.encoder_defs[j]))
                 > MESSAGE_MAX

\* The format strings of the records consumed.
DeclaredStrings ==
    {reqs[i].msg : i \in {j \in DOMAIN reqs :
                             IsDecl(reqs[j]) \/ reqs[j].kind = "_DECL_OUTPUT"}}

\* C18: after create_message_ids every declared format string has an
\* identifier, and no lookup of the emitters fails on a missing key.
C18_EveryFormatHasId ==
    /\ Assigned => DeclaredStrings \subseteq DOMAIN msg_to_id
    /\ code.raised # "KeyError"

\* Records i < j are both commands for one message name.
SameCommand(i, j) ==
    /\ i < j
    /\ reqs[i].kind = "_DECL_COMMAND"
    /\ reqs[j].kind = "_DECL_COMMAND"
    /\ FirstToken(reqs[i].msg) = FirstToken(reqs[j].msg)

\* C19: a second command record for a message name ends the run in a fatal
\* error at that record, also when it is identical to the first; an encoder
\* record identical to an earlier one never does.
C19_CommandNotIdempotent ==
    /\ \A i, j \in DOMAIN reqs :
          SameCommand(i, j) => (pc = "error" /\ j = Len(reqs))
    /\ \A i, j \in DOMAIN reqs :
          (i < j /\ reqs[i] = reqs[j] /\ reqs[j].kind = "_DECL_ENCODER")
             => ~(pc = "error" /\ j = Len(reqs))

\* The run ended in an error at a command record identical to an earlier
\* one.
C19_Witness ==
    /\ pc = "error"
    /\ \E i \in DOMAIN reqs :
          /\ SameCommand(i, Len(reqs))
          /\ reqs[i] = reqs[Len(reqs)]

\* The entries that refer to a type table, as <<params, signature>>.
TableRefs ==
    {<<code.encoder_defs[i].parsercode.params,
       SignatureOfDef(code.encoder_defs[i])>> : i \in DOMAIN code.encoder_defs}
    \cup {<<code.index[i].parsercode.params, SignatureOfEntry(code.index[i])>> :
             i \in {j \in DOMAIN code.index : ~code.index[j].empty}}

\* C20: every command_parametersN an emitted entry refers to is defined
\* exactly once in the type tables written, with the entry's signature; an
\* entry with an empty signature refers to no table and the empty signature
\* is not interned.
C20_TypeTablesDefined ==
    Emitted =>
       /\ \A r \in TableRefs :
             IF r[2] = <<>> THEN r[1] = <<>>
             ELSE /\ r[1] # <<>>
                  /\ Cardinality({k \in DOMAIN code.param_code :
                        code.param_code[k].paramid = r[1][1]}) = 1
                  /\ \E k \in DOMAIN code.param_code :
                        /\ code.param_code[k].paramid = r[1][1]
                        /\ code.param_code[k].argtypes = r[2]
       /\ <<>> \notin DOMAIN all_param_types
       /\ \A k \in DOMAIN code.param_code :
             code.param_code[k].argtypes # <<>>

\* Code was written in which a response entry and a command entry refer to
\* different type tables and a further entry has an empty signature.
C20_Witness ==
    /\ Emitted
    /\ Len(code.param_code) >= 2
    /\ \E r \in TableRefs : r[2] = <<>>
    /\ \E i \in DOMAIN code.encoder_defs, j \in DOMAIN code.index :
          /\ ~code.index[j].empty
          /\ code.encoder_defs[i].parsercode.params # <<>>
          /\ code.index[j].parsercode.params # <<>>
          /\ code.index[j].parsercode.params
                # code.encoder_defs[i].parsercode.params
====
